---- MODULE Spec2Model ----
(***************************************************************************)
(* Model of src/main.py: the context-assembly pipeline behind the          *)
(* /search-client and /search-client-lead endpoints.                       *)
(*                                                                         *)
(* Text is a sequence of Unicode code points.  A tokenizer (tiktoken) is a *)
(* byte-level BPE codec: encode takes the UTF-8 bytes of the text and      *)
(* merges adjacent parts by vocabulary rank; decode concatenates the bytes *)
(* of the tokens and decodes them as UTF-8 with errors="replace".  A token *)
(* is represented by its byte sequence (the vocabulary is a bijection      *)
(* between ranks and byte sequences).  The vocabularies are small          *)
(* stand-ins: no merge crosses a pre-tokenizer boundary, so the regex      *)
(* split of tiktoken changes nothing on them and is left out.              *)
(***************************************************************************)
EXTENDS Integers, Sequences, FiniteSets, TLC

VARIABLES
    a_texts,      \* prepare_context_for_llm: argument texts
    a_model,      \* prepare_context_for_llm: argument model
    a_max,        \* prepare_context_for_llm: argument max_tokens
    a_pc,         \* "ready" before the call, "returned" after it
    a_out,        \* what the call returned or raised
    store,        \* the collection, in the order the adapter scans it
    pc,           \* the invocation: "idle", "fetching" (scroll issued), "done"
    req,          \* the query parameters of the invocation
    fetch,        \* what the scroll call of the invocation did
    loc,          \* the handler's locals when it returned
    resp,         \* the response payload
    prev          \* the response of the same request just before, if any

avars == <<a_texts, a_model, a_max, a_pc, a_out>>
evars == <<store, pc, req, fetch, loc, resp, prev>>
vars == <<a_texts, a_model, a_max, a_pc, a_out, store, pc, req, fetch, loc, resp, prev>>

(***************************************************************************)
(* Bounds of the model.                                                    *)
(***************************************************************************)
MaxTexts == 2
MaxTok == 3
MaxStore == 3
MaxLimit == 2
MaxOffset == 1

(***************************************************************************)
(* Characters.                                                             *)
(***************************************************************************)
\* The separator of the join.
NL == 10
\* U+FFFD, what the decoder puts for bytes that are not UTF-8.
ReplacementChar == 65533

\* The strings texts are drawn from: "", "a", "ab", the euro sign (three
\* bytes of UTF-8) and "b" followed by it.
TextPool == { <<>>, <<97>>, <<97, 98>>, <<8364>>, <<98, 8364>> }

(***************************************************************************)
(* UTF-8.                                                                  *)
(***************************************************************************)
Utf8Char(cp) ==
    IF cp < 128 THEN <<cp>>
    ELSE IF cp < 2048 THEN <<192 + (cp \div 64), 128 + (cp % 64)>>
    ELSE IF cp < 65536
         THEN <<224 + (cp \div 4096), 128 + ((cp \div 64) % 64), 128 + (cp % 64)>>
    ELSE <<240 + (cp \div 262144), 128 + ((cp \div 4096) % 64),
           128 + ((cp \div 64) % 64), 128 + (cp % 64)>>

RECURSIVE Utf8Encode(_)
Utf8Encode(s) ==
    IF s = <<>> THEN <<>> ELSE Utf8Char(Head(s)) \o Utf8Encode(Tail(s))

IsCont(b) == b >= 128 /\ b <= 191

Drop(s, n) == SubSeq(s, n + 1, Len(s))

\* bytes.decode("utf-8", errors="replace"): an ill-formed or cut-off sequence
\* becomes one U+FFFD for its maximal well-formed prefix.
RECURSIVE Utf8Decode(_)
Utf8Decode(b) ==
    IF b = <<>> THEN <<>>
    ELSE LET h == b[1]
             n == Len(b)
             c2 == n >= 2 /\ IsCont(b[2])
             c3 == c2 /\ n >= 3 /\ IsCont(b[3])
             c4 == c3 /\ n >= 4 /\ IsCont(b[4])
         IN  IF h < 128 THEN <<h>> \o Utf8Decode(Drop(b, 1))
             ELSE IF h >= 194 /\ h <= 223
                  THEN IF c2
                       THEN <<(h - 192) * 64 + (b[2] - 128)>> \o Utf8Decode(Drop(b, 2))
                       ELSE <<ReplacementChar>> \o Utf8Decode(Drop(b, 1))
             ELSE IF h >= 224 /\ h <= 239
                  THEN IF c3
                       THEN <<(h - 224) * 4096 + (b[2] - 128) * 64 + (b[3] - 128)>>
                            \o Utf8Decode(Drop(b, 3))
                       ELSE IF c2
                            THEN <<ReplacementChar>> \o Utf8Decode(Drop(b, 2))
                            ELSE <<ReplacementChar>> \o Utf8Decode(Drop(b, 1))
             ELSE IF h >= 240 /\ h <= 244
                  THEN IF c4
                       THEN <<(h - 240) * 262144 + (b[2] - 128) * 4096
                              + (b[3] - 128) * 64 + (b[4] - 128)>>
                            \o Utf8Decode(Drop(b, 4))
                       ELSE IF c3
                            THEN <<ReplacementChar>> \o Utf8Decode(Drop(b, 3))
                            ELSE IF c2
                                 THEN <<ReplacementChar>> \o Utf8Decode(Drop(b, 2))
                                 ELSE <<ReplacementChar>> \o Utf8Decode(Drop(b, 1))
             ELSE <<ReplacementChar>> \o Utf8Decode(Drop(b, 1))

(***************************************************************************)
(* tiktoken: the encodings.                                                *)
(***************************************************************************)
Models == {"gpt-4-turbo", "gpt2", "no-such-model"}

\* tiktoken.encoding_for_model: the encoding of a model name, KeyError for
\* a name it does not know.
encoding_for_model(model) ==
    IF model = "gpt-4-turbo" THEN "cl100k_base"
    ELSE IF model = "gpt2" THEN "gpt2"
    ELSE "KeyError"

\* The merged byte sequences of an encoding, by rank.  Every single byte is
\* a token of every encoding.  Under cl100k_base the euro sign is one token;
\* under gpt2 its three bytes are three tokens.  U+FFFD is one token in both.
Ranks(enc) ==
    IF enc = "cl100k_base"
    THEN << <<97, 98>>, <<226, 130>>, <<226, 130, 172>>,
            <<239, 191>>, <<239, 191, 189>> >>
    ELSE << <<97, 98>>, <<239, 191>>, <<239, 191, 189>> >>

\* The rank of a byte sequence among the merges, 0 when it is not one.
RankOf(enc, bytes) ==
    LET r == Ranks(enc)
        hits == {i \in 1..Len(r) : r[i] = bytes}
    IN  IF hits = {} THEN 0 ELSE CHOOSE i \in hits : TRUE

\* The leftmost adjacent pair of lowest rank, 0 when no pair merges.
MinPair(enc, parts) ==
    LET cand == {i \in 1..(Len(parts) - 1) : RankOf(enc, parts[i] \o parts[i + 1]) > 0}
    IN  IF cand = {} THEN 0
        ELSE CHOOSE i \in cand :
                \A j \in cand :
                    LET ri == RankOf(enc, parts[i] \o parts[i + 1])
                        rj == RankOf(enc, parts[j] \o parts[j + 1])
                    IN  ri < rj \/ (ri = rj /\ i <= j)

RECURSIVE BytePairMerge(_, _)
BytePairMerge(enc, parts) ==
    LET i == MinPair(enc, parts)
    IN  IF i = 0 THEN parts
        ELSE BytePairMerge(enc,
                 SubSeq(parts, 1, i - 1) \o << parts[i] \o parts[i + 1] >>
                 \o SubSeq(parts, i + 2, Len(parts)))

\* enc.encode(text)
Encode(enc, text) ==
    LET bytes == Utf8Encode(text)
    IN  BytePairMerge(enc, [i \in 1..Len(bytes) |-> <<bytes[i]>>])

RECURSIVE Concat(_)
Concat(ss) == IF ss = <<>> THEN <<>> ELSE Head(ss) \o Concat(Tail(ss))

\* enc.decode(tokens)
Decode(enc, tokens) == Utf8Decode(Concat(tokens))

(***************************************************************************)
(* prepare_context_for_llm                                                 *)
(***************************************************************************)
\* A join that forgets the separator.
RECURSIVE JoinNoSeparator(_)
JoinNoSeparator(texts) ==
    IF texts = <<>> THEN <<>> ELSE Head(texts) \o JoinNoSeparator(Tail(texts))

\* "\n".join(texts)
RECURSIVE Join(_)
Join(texts) ==
    IF texts = <<>> THEN <<>>
    ELSE IF Len(texts) = 1 THEN texts[1]
    ELSE texts[1] \o <<NL>> \o Join(Tail(texts))

\* A slice that is one token short: tokens[:max_tokens - 1].
TruncateShort(tokens, max_tokens) == SubSeq(tokens, 1, max_tokens - 1)

\* tokens[:max_tokens]
Truncate(tokens, max_tokens) == SubSeq(tokens, 1, max_tokens)

prepare_context_for_llm(texts, model, max_tokens) ==
    LET enc == encoding_for_model(model)
        combined == Join(texts)
        tokens == Encode(enc, combined)
    IN  IF enc = "KeyError"
        THEN [raised |-> TRUE, text |-> <<>>, token_count |-> 0]
        ELSE IF Len(tokens) > max_tokens
             THEN [raised |-> FALSE,
                   text |-> Decode(enc, Truncate(tokens, max_tokens)),
                   token_count |-> Len(Truncate(tokens, max_tokens))]
             ELSE [raised |-> FALSE, text |-> combined, token_count |-> Len(tokens)]


(***************************************************************************)
(* Records of the store.  A payload value is a string or an integer.       *)
(***************************************************************************)
StrV(s) == [t |-> "str", s |-> s, n |-> 0]
IntV(n) == [t |-> "int", s |-> <<>>, n |-> n]

\* The client_id the /search-client endpoint filters on.
FixedClientId == 123

LeadA == <<65>>
LeadB == <<66>>

\* The points the store may hold.  Timestamps: the strings "10" and "9"
\* (twice), an integer, none.  Text: a summary, a text, both (the summary an
\* integer), neither.
PointPool ==
    { [id |-> 1, payload |-> [client_id |-> IntV(FixedClientId), lead_id |-> StrV(LeadA),
                              timestamp |-> StrV(<<49, 48>>), summary |-> StrV(<<97, 98>>)]],
      [id |-> 2, payload |-> [client_id |-> IntV(FixedClientId), lead_id |-> StrV(LeadA),
                              timestamp |-> StrV(<<57>>), text |-> StrV(<<8364>>)]],
      [id |-> 3, payload |-> [client_id |-> IntV(FixedClientId), lead_id |-> StrV(LeadA),
                              body |-> StrV(<<98>>)]],
      [id |-> 4, payload |-> [client_id |-> IntV(FixedClientId), lead_id |-> StrV(LeadB),
                              timestamp |-> IntV(9), body |-> StrV(<<97>>)]],
      [id |-> 5, payload |-> [client_id |-> IntV(FixedClientId), lead_id |-> StrV(LeadA),
                              timestamp |-> StrV(<<57>>), summary |-> IntV(70),
                              text |-> StrV(<<98>>)]] }

Min(a, b) == IF a < b THEN a ELSE b

(***************************************************************************)
(* The store adapter: qdrant_client.scroll with a conjunction of equality  *)
(* filters and a limit.                                                    *)
(***************************************************************************)
\* The "must" conditions of the endpoint's scroll_filter.
ScrollFilter(r) ==
    IF r.endpoint = "search_client"
    THEN << [key |-> "client_id", value |-> IntV(FixedClientId)] >>
    ELSE << [key |-> "client_id", value |-> IntV(r.client_id)],
            [key |-> "lead_id", value |-> StrV(r.lead_id)] >>

Matches(point, must) ==
    \A i \in 1..Len(must) :
        /\ must[i].key \in DOMAIN point.payload
        /\ point.payload[must[i].key] = must[i].value

\* Every point of the collection the filter matches, in scan order.
AllMatching(coll, must) == SelectSeq(coll, LAMBDA p : Matches(p, must))

\* scroll(..., limit=n): the first n matching points.
Scroll(coll, must, n) ==
    LET m == AllMatching(coll, must) IN SubSeq(m, 1, Min(n, Len(m)))

\* limit=limit + offset
FetchSize(r) == r.limit + r.offset

(***************************************************************************)
(* Record selector: sorted(points, key=get_timestamp, reverse=True) and    *)
(* the page slice.                                                         *)
(***************************************************************************)
\* payload.get('timestamp', '')
get_timestamp(point) ==
    IF "timestamp" \in DOMAIN point.payload
    THEN point.payload["timestamp"]
    ELSE StrV(<<>>)

\* str < str, by code point.
RECURSIVE LexLess(_, _)
LexLess(s, t) ==
    IF t = <<>> THEN FALSE
    ELSE IF s = <<>> THEN TRUE
    ELSE IF Head(s) # Head(t) THEN Head(s) < Head(t)
    ELSE LexLess(Tail(s), Tail(t))

\* Python's < on two keys of the same type.
KeyLess(a, b) == IF a.t = "int" THEN a.n < b.n ELSE LexLess(a.s, b.s)

\* sorted() compares a str with an int as soon as both occur: TypeError.
SortRaises(points) ==
    \E i, j \in 1..Len(points) : get_timestamp(points[i]).t # get_timestamp(points[j]).t

\* Insert p after every element whose key is not less than p's.
RECURSIVE InsertDesc(_, _)
InsertDesc(sorted, p) ==
    IF sorted = <<>> THEN <<p>>
    ELSE IF KeyLess(get_timestamp(Head(sorted)), get_timestamp(p))
         THEN <<p>> \o sorted
         ELSE <<Head(sorted)>> \o InsertDesc(Tail(sorted), p)

\* The stable descending sort of points, where it does not raise.
RECURSIVE SortedDesc(_)
SortedDesc(points) ==
    IF points = <<>> THEN <<>>
    ELSE InsertDesc(SortedDesc(SubSeq(points, 1, Len(points) - 1)), points[Len(points)])

\* points_sorted[offset:offset+limit]
Page(points_sorted, offset, limit) ==
    SubSeq(points_sorted, offset + 1, Min(offset + limit, Len(points_sorted)))

(***************************************************************************)
(* Field selection.                                                        *)
(***************************************************************************)
IsSpace(c) == c \in {" ", "\t"}

\* include_fields.split(","): at least one part, one more per comma.
RECURSIVE SplitComma(_)
SplitComma(cs) ==
    IF cs = <<>> THEN << <<>> >>
    ELSE LET rest == SplitComma(Tail(cs))
         IN  IF Head(cs) = ","
             THEN << <<>> >> \o rest
             ELSE << <<Head(cs)>> \o Head(rest) >> \o Tail(rest)

RECURSIVE LStrip(_)
LStrip(cs) == IF cs # <<>> /\ IsSpace(Head(cs)) THEN LStrip(Tail(cs)) ELSE cs

RECURSIVE RStrip(_)
RStrip(cs) ==
    IF cs # <<>> /\ IsSpace(cs[Len(cs)]) THEN RStrip(SubSeq(cs, 1, Len(cs) - 1)) ELSE cs

\* f.strip()
Strip(cs) == RStrip(LStrip(cs))

\* The characters as one string.
RECURSIVE Cat(_)
Cat(cs) == IF cs = <<>> THEN "" ELSE Head(cs) \o Cat(Tail(cs))

\* [f.strip() for f in include_fields.split(",") if f.strip()]
Fields(include_fields) ==
    LET parts == SplitComma(include_fields)
        kept == SelectSeq(parts, LAMBDA f : Strip(f) # <<>>)
    IN  [i \in 1..Len(kept) |-> Cat(Strip(kept[i]))]

\* str(n) for n >= 0
RECURSIVE Digits(_)
Digits(n) == IF n < 10 THEN <<48 + n>> ELSE Digits(n \div 10) \o <<48 + (n % 10)>>

\* str(payload[field])
Str(v) == IF v.t = "str" THEN v.s ELSE Digits(v.n)

\* An inner loop that puts an empty string for a record with none of the fields.
RECURSIVE FirstFieldOrEmpty(_, _)
FirstFieldOrEmpty(payload, fields) ==
    IF fields = <<>> THEN << <<>> >>
    ELSE IF Head(fields) \in DOMAIN payload
         THEN << Str(payload[Head(fields)]) >>
         ELSE FirstFieldOrEmpty(payload, Tail(fields))

\* The inner loop: the first field of the list in the payload, then break.
RECURSIVE FirstField(_, _)
FirstField(payload, fields) ==
    IF fields = <<>> THEN <<>>
    ELSE IF Head(fields) \in DOMAIN payload
         THEN << Str(payload[Head(fields)]) >>
         ELSE FirstField(payload, Tail(fields))

\* The outer loop over paged_points, building payload_texts.
RECURSIVE PayloadTexts(_, _)
PayloadTexts(paged_points, fields) ==
    IF paged_points = <<>> THEN <<>>
    ELSE FirstField(Head(paged_points).payload, fields)
         \o PayloadTexts(Tail(paged_points), fields)

(***************************************************************************)
(* The response payloads of search_client and search_client_lead.          *)
(***************************************************************************)
NoResp ==
    [keys |-> {}, points |-> <<>>, context |-> <<>>, token_count |-> 0,
     message |-> "", error |-> "", limit |-> 0, offset |-> 0, fields |-> <<>>,
     model |-> "", max_tokens |-> 0]

\* The return of the "if not points" branch.
NoResultsResponse ==
    [NoResp EXCEPT !.keys = {"points", "context", "token_count", "message"},
                   !.message = "No results found."]

\* The return of the except branch; e is str(e).
ErrorResponse(e) ==
    [NoResp EXCEPT !.keys = {"points", "context", "token_count", "error"},
                   !.error = e]

\* The return at the end of the try block.
SuccessResponse(r, paged_points, fields, out) ==
    [keys |-> {"points", "context", "token_count", "limit", "offset", "fields",
               "model", "max_tokens"},
     points |-> paged_points, context |-> out.text, token_count |-> out.token_count,
     message |-> "", error |-> "", limit |-> r.limit, offset |-> r.offset,
     fields |-> fields, model |-> r.model, max_tokens |-> r.max_tokens]

NoLoc == [paged_points |-> <<>>, fields |-> <<>>, payload_texts |-> <<>>]

\* A handler whose tokenization is outside the try block: the tokenizer's
\* fault is not turned into the error payload.
HandleTokenizerUncaught(r, points) ==
    LET paged_points == Page(SortedDesc(points), r.offset, r.limit)
        fields == Fields(r.include_fields)
        payload_texts == PayloadTexts(paged_points, fields)
        out == prepare_context_for_llm(payload_texts, r.model, r.max_tokens)
        l == [paged_points |-> paged_points, fields |-> fields,
              payload_texts |-> payload_texts]
    IN  IF points = <<>> THEN [resp |-> NoResultsResponse, loc |-> NoLoc]
        ELSE IF SortRaises(points) THEN [resp |-> ErrorResponse("TypeError"), loc |-> NoLoc]
        ELSE IF out.raised
             THEN [resp |-> [NoResp EXCEPT !.keys = {"detail"}, !.points = paged_points],
                   loc |-> l]
        ELSE [resp |-> SuccessResponse(r, paged_points, fields, out), loc |-> l]

\* A handler that tests the page, not the batch, for emptiness.
HandleEmptyPage(r, points) ==
    LET paged_points == Page(SortedDesc(points), r.offset, r.limit)
        fields == Fields(r.include_fields)
        payload_texts == PayloadTexts(paged_points, fields)
        out == prepare_context_for_llm(payload_texts, r.model, r.max_tokens)
        l == [paged_points |-> paged_points, fields |-> fields,
              payload_texts |-> payload_texts]
    IN  IF points = <<>> THEN [resp |-> NoResultsResponse, loc |-> NoLoc]
        ELSE IF SortRaises(points) THEN [resp |-> ErrorResponse("TypeError"), loc |-> NoLoc]
        ELSE IF paged_points = <<>> THEN [resp |-> NoResultsResponse, loc |-> l]
        ELSE IF out.raised THEN [resp |-> ErrorResponse("KeyError"), loc |-> l]
        ELSE [resp |-> SuccessResponse(r, paged_points, fields, out), loc |-> l]

\* The handler from "points, _ = result" to its return: what it returns and
\* the locals it had computed by then.
Handle(r, points) ==
    LET paged_points == Page(SortedDesc(points), r.offset, r.limit)
        fields == Fields(r.include_fields)
        payload_texts == PayloadTexts(paged_points, fields)
        out == prepare_context_for_llm(payload_texts, r.model, r.max_tokens)
        l == [paged_points |-> paged_points, fields |-> fields,
              payload_texts |-> payload_texts]
    IN  IF points = <<>> THEN [resp |-> NoResultsResponse, loc |-> NoLoc]
        ELSE IF SortRaises(points) THEN [resp |-> ErrorResponse("TypeError"), loc |-> NoLoc]
        ELSE IF out.raised THEN [resp |-> ErrorResponse("KeyError"), loc |-> l]
        ELSE [resp |-> SuccessResponse(r, paged_points, fields, out), loc |-> l]

(***************************************************************************)
(* Query parameters.                                                       *)
(***************************************************************************)
\* max_tokens: Query(8000, ge=100, le=32000)
MinMaxTokens == 100
MaxMaxTokens == 32000
\* limit: Query(10, ge=1, le=100)
LimitCeiling == 100

IncludeFieldsInputs ==
    { <<"s", "u", "m", "m", "a", "r", "y", ",", "t", "e", "x", "t">>,
      <<" ", "t", "e", "x", "t", " ", ",", "s", "u", "m", "m", "a", "r", "y">>,
      <<"b", "o", "d", "y", ",">>,
      <<" ", ",">> }

\* The models an endpoint is called with: the default and an unknown one.
EndpointModels == {"gpt-4-turbo", "no-such-model"}

Requests ==
    { r \in [endpoint : {"search_client", "search_client_lead"},
             client_id : {0, FixedClientId, 456},
             lead_id : {<<>>, LeadA},
             limit : 1..MaxLimit,
             offset : 0..MaxOffset,
             max_tokens : {MinMaxTokens},
             model : EndpointModels,
             include_fields : IncludeFieldsInputs] :
        /\ r.limit <= LimitCeiling
        /\ r.max_tokens >= MinMaxTokens /\ r.max_tokens <= MaxMaxTokens
        /\ IF r.endpoint = "search_client"
           THEN r.client_id = 0 /\ r.lead_id = <<>>
           ELSE r.client_id # 0 /\ r.lead_id # <<>> }

NoReq ==
    [endpoint |-> "", client_id |-> 0, lead_id |-> <<>>, limit |-> 0, offset |-> 0,
     max_tokens |-> 0, model |-> "", include_fields |-> <<>>]

NoFetch == [outcome |-> "none", calls |-> 0, batch |-> <<>>, all |-> <<>>]

NoPrev == [valid |-> FALSE, context |-> <<>>, token_count |-> 0]

(***************************************************************************)
(* The store changes under the endpoints.                                  *)
(***************************************************************************)
InStore(p) == \E i \in 1..Len(store) : store[i] = p

Upsert(p) ==
    /\ pc \in {"idle", "fetching"}
    /\ Len(store) < MaxStore
    /\ ~InStore(p)
    /\ store' = Append(store, p)
    /\ prev' = NoPrev
    /\ UNCHANGED <<pc, req, fetch, loc, resp>>

Delete(i) ==
    /\ pc \in {"idle", "fetching"}
    /\ i \in 1..Len(store)
    /\ store' = SubSeq(store, 1, i - 1) \o SubSeq(store, i + 1, Len(store))
    /\ prev' = NoPrev
    /\ UNCHANGED <<pc, req, fetch, loc, resp>>

(***************************************************************************)
(* One invocation of an endpoint: the handler runs up to its scroll call,  *)
(* which is its only suspension point, and from the outcome of the call to *)
(* its return.                                                             *)
(***************************************************************************)
\* The request arrives and the handler calls qdrant_client.scroll.
Invoke(r) ==
    /\ pc = "idle"
    /\ pc' = "fetching"
    /\ req' = r
    /\ fetch' = [NoFetch EXCEPT !.outcome = "pending", !.calls = 1]
    /\ prev' = NoPrev
    /\ UNCHANGED <<store, loc, resp>>

\* A handler whose payload_texts is a module-level list, never emptied: the
\* texts of the request before are still in it.
FetchReturnsStaleTexts ==
    /\ pc = "fetching"
    /\ LET must == ScrollFilter(req)
           points == Scroll(store, must, FetchSize(req))
           h == Handle(req, points)
       IN  /\ fetch' = [fetch EXCEPT !.outcome = "ok", !.batch = points,
                                     !.all = AllMatching(store, must)]
           /\ resp' = IF prev.valid /\ "limit" \in h.resp.keys
                      THEN [h.resp EXCEPT !.context = prev.context \o <<NL>> \o @]
                      ELSE h.resp
           /\ loc' = h.loc
    /\ pc' = "done"
    /\ UNCHANGED <<store, req, prev>>

\* scroll returns a batch and the handler runs to its return.
FetchReturns ==
    /\ pc = "fetching"
    /\ LET must == ScrollFilter(req)
           points == Scroll(store, must, FetchSize(req))
           h == Handle(req, points)
       IN  /\ fetch' = [fetch EXCEPT !.outcome = "ok", !.batch = points,
                                     !.all = AllMatching(store, must)]
           /\ resp' = h.resp
           /\ loc' = h.loc
    /\ pc' = "done"
    /\ UNCHANGED <<store, req, prev>>

\* scroll raises (no connection, a rejected filter): the except branch.
FetchFails ==
    /\ pc = "fetching"
    /\ fetch' = [fetch EXCEPT !.outcome = "error"]
    /\ resp' = ErrorResponse("StoreUnavailable")
    /\ pc' = "done"
    /\ UNCHANGED <<store, req, loc, prev>>

\* A client built with timeout=None: it never gives up.
FetchNeverTimesOut ==
    /\ FALSE
    /\ UNCHANGED evars

\* The store does not answer: the client, built without a timeout argument,
\* gives up after its default timeout and scroll raises: the except branch.
FetchTimesOut ==
    /\ pc = "fetching"
    /\ fetch' = [fetch EXCEPT !.outcome = "timeout"]
    /\ resp' = ErrorResponse("Timeout")
    /\ pc' = "done"
    /\ UNCHANGED <<store, req, loc, prev>>

\* The caller, answered, sends the same request again.
Repeat ==
    /\ pc = "done"
    /\ fetch.outcome = "ok"
    /\ prev' = [valid |-> TRUE, context |-> resp.context, token_count |-> resp.token_count]
    /\ pc' = "fetching"
    /\ fetch' = [NoFetch EXCEPT !.outcome = "pending", !.calls = 1]
    /\ resp' = NoResp
    /\ loc' = NoLoc
    /\ UNCHANGED <<store, req>>

\* The response is delivered; nothing of the invocation is kept.
Return ==
    /\ pc = "done"
    /\ pc' = "idle"
    /\ req' = NoReq
    /\ fetch' = NoFetch
    /\ resp' = NoResp
    /\ loc' = NoLoc
    /\ prev' = NoPrev
    /\ UNCHANGED store

(***************************************************************************)
(* A direct call of prepare_context_for_llm on bounded arguments.          *)
(***************************************************************************)
TextSeqs == UNION { [1..n -> TextPool] : n \in 0..MaxTexts }

NoOut == [raised |-> FALSE, text |-> <<>>, token_count |-> 0]

EInit ==
    /\ store = <<>>
    /\ pc = "idle"
    /\ req = NoReq
    /\ fetch = NoFetch
    /\ loc = NoLoc
    /\ resp = NoResp
    /\ prev = NoPrev

AInit ==
    /\ EInit
    /\ a_texts \in TextSeqs
    /\ a_model \in Models
    /\ a_max \in 1..MaxTok
    /\ a_pc = "ready"
    /\ a_out = NoOut

Assemble ==
    /\ a_pc = "ready"
    /\ a_out' = prepare_context_for_llm(a_texts, a_model, a_max)
    /\ a_pc' = "returned"
    /\ UNCHANGED <<a_texts, a_model, a_max>>

ANext == Assemble /\ UNCHANGED evars

SpecAssemble == AInit /\ [][ANext]_vars

Init ==
    /\ EInit
    /\ a_texts = <<>>
    /\ a_model = "gpt-4-turbo"
    /\ a_max = 1
    /\ a_pc = "ready"
    /\ a_out = NoOut

Next ==
    \/ \E p \in PointPool : Upsert(p) /\ UNCHANGED avars
    \/ \E i \in 1..MaxStore : Delete(i) /\ UNCHANGED avars
    \/ \E r \in Requests : Invoke(r) /\ UNCHANGED avars
    \/ FetchReturns /\ UNCHANGED avars
    \/ FetchFails /\ UNCHANGED avars
    \/ FetchTimesOut /\ UNCHANGED avars
    \/ Repeat /\ UNCHANGED avars
    \/ Return /\ UNCHANGED avars

Spec == Init /\ [][Next]_vars

\* The client's timeout always runs out; the store need never answer.
LiveSpec == Spec /\ WF_vars(FetchTimesOut /\ UNCHANGED avars)



(***************************************************************************)
(* Properties.                                                             *)
(***************************************************************************)
Recognized(model) == encoding_for_model(model) # "KeyError"

\* The newline-joined texts, built from the right.
RECURSIVE Joined(_)
Joined(texts) ==
    IF texts = <<>> THEN <<>>
    ELSE IF Len(texts) = 1 THEN texts[1]
    ELSE Joined(SubSeq(texts, 1, Len(texts) - 1)) \o <<10>> \o texts[Len(texts)]

\* The tokens of the joined texts under the scheme of the call.
JoinedTokens == Encode(encoding_for_model(a_model), Joined(a_texts))

\* C1: whatever prepare_context_for_llm returns, token_count is at most
\* max_tokens and is the number of tokens the returned text tokenizes to
\* under the scheme.
C1_TokenCountIsCountOfText ==
    (a_pc = "returned" /\ ~a_out.raised) =>
        /\ a_out.token_count <= a_max
        /\ a_out.token_count = Len(Encode(encoding_for_model(a_model), a_out.text))

\* C2: when the joined texts tokenize to more than max_tokens tokens, the
\* call returns token_count = max_tokens and the decode of exactly the first
\* max_tokens tokens of the joined string.
C2_TruncationLaw ==
    (a_pc = "returned" /\ Recognized(a_model) /\ Len(JoinedTokens) > a_max) =>
        /\ ~a_out.raised
        /\ a_out.token_count = a_max
        /\ a_out.text = Decode(encoding_for_model(a_model),
                               [i \in 1..a_max |-> JoinedTokens[i]])

C2_Witness ==
    /\ a_pc = "returned"
    /\ Recognized(a_model)
    /\ Len(a_texts) = 2
    /\ Len(JoinedTokens) > a_max
    /\ a_out.token_count = a_max
    /\ a_out.text # <<>>

\* C3: when the joined texts tokenize to at most max_tokens tokens, the call
\* returns the full join, in input order and unchanged, with its true token
\* count; no texts at all give the empty text and 0 tokens, not an error.
C3_NoTruncationLaw ==
    (a_pc = "returned" /\ Recognized(a_model) /\ Len(JoinedTokens) <= a_max) =>
        /\ ~a_out.raised
        /\ a_out.text = Joined(a_texts)
        /\ a_out.token_count = Len(JoinedTokens)
        /\ (a_texts = <<>> => a_out.text = <<>> /\ a_out.token_count = 0)

C3_Witness ==
    /\ a_pc = "returned"
    /\ Recognized(a_model)
    /\ Len(a_texts) = 2
    /\ a_texts[1] # <<>> /\ a_texts[2] # <<>> /\ a_texts[1] # a_texts[2]
    /\ Len(JoinedTokens) <= a_max
    /\ a_out.text = a_texts[1] \o <<10>> \o a_texts[2]

\* The fetch of the invocation returned a batch with a record in it.
FetchedSome == pc = "done" /\ fetch.outcome = "ok" /\ fetch.batch # <<>>

\* The timestamp of a record as a string, the empty string when it has none.
TimestampString(point) ==
    IF "timestamp" \in DOMAIN point.payload THEN Str(point.payload["timestamp"]) ELSE <<>>

\* seq is a stable descending sort of batch by TimestampString.
IsStableDescSortOf(seq, batch) ==
    /\ Len(seq) = Len(batch)
    /\ \E perm \in [1..Len(batch) -> 1..Len(batch)] :
          /\ \A i, j \in 1..Len(batch) : i # j => perm[i] # perm[j]
          /\ \A i \in 1..Len(batch) : seq[i] = batch[perm[i]]
          /\ \A i \in 1..(Len(batch) - 1) :
                LET a == TimestampString(batch[perm[i]])
                    b == TimestampString(batch[perm[i + 1]])
                IN  ~LexLess(a, b) /\ (a = b => perm[i] < perm[i + 1])

\* C4: the selected window has at most limit records and is the slice
\* [offset, offset+limit) of the fetched batch sorted stably and descending
\* by timestamp as a string, a missing timestamp being the empty string; an
\* offset past the end gives an empty window, and none of this is an error.
C4_WindowIsSliceOfSortedBatch ==
    FetchedSome =>
        /\ resp.error # "TypeError"
        /\ Len(loc.paged_points) <= req.limit
        /\ \E sorted \in [1..Len(fetch.batch) -> PointPool] :
              /\ IsStableDescSortOf(sorted, fetch.batch)
              /\ loc.paged_points =
                    SubSeq(sorted, req.offset + 1,
                           Min(req.offset + req.limit, Len(sorted)))

\* The records of the window that have one of the listed fields.
Contributors ==
    {i \in 1..Len(loc.paged_points) :
        \E j \in 1..Len(loc.fields) : loc.fields[j] \in DOMAIN loc.paged_points[i].payload}

\* The first listed field record i of the window has.
FirstPresent(i) ==
    LET p == loc.paged_points[i].payload
    IN  loc.fields[CHOOSE j \in 1..Len(loc.fields) :
                      /\ loc.fields[j] \in DOMAIN p
                      /\ \A k \in 1..(j - 1) : loc.fields[k] \notin DOMAIN p]

\* The k-th contributor, in window order.
Contributor(k) == CHOOSE i \in Contributors : Cardinality({j \in Contributors : j <= i}) = k

\* C5: the extracted texts are, in window order, the value (as text) of the
\* first listed field each record has; a record with none of the listed
\* fields contributes nothing.
C5_FieldExtraction ==
    (FetchedSome /\ resp.error # "TypeError") =>
        /\ Len(loc.payload_texts) = Cardinality(Contributors)
        /\ Len(loc.payload_texts) <= Len(loc.paged_points)
        /\ \A k \in 1..Len(loc.payload_texts) :
              loc.payload_texts[k] =
                  Str(loc.paged_points[Contributor(k)].payload[FirstPresent(Contributor(k))])

C5_Witness ==
    /\ FetchedSome
    /\ Len(loc.paged_points) = 2
    /\ Contributors = {1}
    /\ Len(loc.fields) = 2
    /\ FirstPresent(1) = loc.fields[2]
    /\ Len(loc.payload_texts) = 1

IsErrorShape(r) ==
    /\ r.keys = {"points", "context", "token_count", "error"}
    /\ r.points = <<>> /\ r.context = <<>> /\ r.token_count = 0
    /\ r.error # ""

IsNoResultsShape(r) ==
    /\ r.keys = {"points", "context", "token_count", "message"}
    /\ r.points = <<>> /\ r.context = <<>> /\ r.token_count = 0
    /\ r.message = "No results found."

\* C6: when the fetch fails, or the tokenizer fails after a fetch that
\* returned records, the invocation returns the error shape: no points, no
\* context, a zero token count and a message.
C6_ErrorIsolation ==
    (/\ pc = "done"
     /\ \/ fetch.outcome \in {"error", "timeout"}
        \/ (FetchedSome /\ ~Recognized(req.model))) =>
        IsErrorShape(resp)

C6_Witness ==
    /\ FetchedSome
    /\ ~Recognized(req.model)
    /\ loc.paged_points # <<>>
    /\ loc.payload_texts # <<>>
    /\ IsErrorShape(resp)

\* C7: the response is the no-results shape exactly when the fetch succeeded
\* and returned no record; that response carries no error field.
C7_NoResultsShape ==
    pc = "done" =>
        /\ IsNoResultsShape(resp) <=> (fetch.outcome = "ok" /\ fetch.batch = <<>>)
        /\ IsNoResultsShape(resp) => "error" \notin resp.keys

C7_Witness ==
    /\ pc = "done"
    /\ fetch.outcome = "ok"
    /\ fetch.batch = <<>>
    /\ store # <<>>
    /\ IsNoResultsShape(resp)

C9_WindowIsSliceOfAllMatching ==
    (pc = "done" /\ fetch.outcome = "ok" /\ ~SortRaises(fetch.all)) =>
        /\ fetch.calls = 1
        /\ Len(fetch.batch) <= req.limit + req.offset
        /\ (fetch.all # <<>> =>
               loc.paged_points = Page(SortedDesc(fetch.all), req.offset, req.limit))

====
